---- MODULE Spec2Model ----
(***************************************************************************)
(* Opayo connector transformers (connector/opayo/transformers.rs) and the  *)
(* router error taxonomy (core/errors.rs).                                 *)
(*                                                                         *)
(* The conversions are pure functions.  Init draws one input for one of    *)
(* the conversions, the matching action applies the conversion to it and   *)
(* records what it returned.  Init may instead draw the connector a caller *)
(* asks the Registry for; the caller then hands the resolved integration   *)
(* to one processing-step invocation, which the executor actions carry     *)
(* through to_wire_request, the transport and from_wire_response.          *)
(***************************************************************************)
EXTENDS Integers, Sequences, FiniteSets, TLC

VARIABLES
    item,            \* Option<&PaymentsAuthorizeRouterData> handed to try_from
    request,         \* Option<Result<OpayoPaymentsRequest, ConnectorError>>
    width,           \* Option<u32> handed to getWindowSize
    window_size,     \* Option<&'static str>
    auth_type,       \* Option<&ConnectorAuthType>
    opayo_auth,      \* Option<Result<OpayoAuthType, ConnectorError>>
    response_item,   \* Option<ResponseRouterData<F, OpayoPaymentsResponse, T, PaymentsResponseData>>
    router_data,     \* Option<Result<RouterData, ParsingError>>
    bach_error,      \* Option<BachError> whose ResponseError methods are called
    status_code_out, \* Option<StatusCode>
    http_response,   \* Option<HttpResponse>
    lower_error,     \* Option<lower-layer error> handed to From::from
    lifted,          \* Option<conversion result>
    refund_item,     \* Option<input of one of the refund conversions>
    refund_out,      \* Option<what the refund conversion did>
    connector_name,  \* Option<connector and flow the caller asks the Registry for>
    integration,     \* Option<Result<connector, ConnectorError>> of the lookup
    step,            \* Option<arguments of a processing-step invocation>
    step_trace,      \* the executor states the invocation went through
    wire_request,    \* Option<wire request built by to_wire_request>
    transport_calls, \* number of calls made to the transport collaborator
    reply,           \* Option<what the transport returned>
    outcome,         \* the outcome fields of the domain data
    step_result      \* Option<what the invocation returned to its caller>

refundVars == <<refund_item, refund_out>>

stepVars == <<connector_name, integration, step, step_trace, wire_request,
              transport_calls, reply, outcome, step_result>>

vars == <<item, request, width, window_size, auth_type, opayo_auth,
          response_item, router_data, bach_error, status_code_out,
          http_response, lower_error, lifted, refundVars, stepVars>>

conversionVars == <<item, request, width, window_size, auth_type, opayo_auth,
                    response_item, router_data, bach_error, status_code_out,
                    http_response, lower_error, lifted>>

-----------------------------------------------------------------------------
(* Bounds of the model. *)

\* getWindowSize is applied to every width in 0..MaxWidth.
MaxWidth == 640

-----------------------------------------------------------------------------
(* Option and Result. *)

None == <<>>
Some(v) == <<v>>
IsSome(o) == o # <<>>
IsNone(o) == o = <<>>
Unwrap(o) == o[1]
OptionOf(S) == {None} \cup {Some(v) : v \in S}

Ok(v) == [ok |-> TRUE, val |-> v]
Err(e) == [ok |-> FALSE, err |-> e]

\* Option::ok_or
ok_or(o, e) == IF IsSome(o) THEN Ok(Unwrap(o)) ELSE Err(e)

-----------------------------------------------------------------------------
(* core/errors.rs: ConnectorError (the variants the transformers raise).   *)
(* A message is the sequence of its words.                                 *)

MissingRequiredField(name) == [kind |-> "MissingRequiredField", field_name |-> name]
NotImplemented(msg) == [kind |-> "NotImplemented", message |-> msg]
FailedToObtainAuthType == [kind |-> "FailedToObtainAuthType"]

-----------------------------------------------------------------------------
(* Domain input of the authorize flow.                                     *)

Descriptions == {"This is a test"}
PaymentIds == {"pay_1"}
ReturnUrls == {"https://router.example/return"}
Amounts == {-1, 0, 100}
USD == [variant |-> "USD"]
Currencies == {USD}
Card == [variant |-> "Card"]
PaymentMethods == {Card, [variant |-> "Wallet"], [variant |-> "BankTransfer"]}
IpAddresses == {<<127, 0, 0, 1>>}
\* the widths around every threshold of getWindowSize
Widths == {0, 250, 251, 390, 391, 500, 501, 600, 601, 1920}

AddressDetails ==
    [line1 : OptionOf({"1 Main St"}), city : OptionOf({"London"}),
     country : OptionOf({"GB"}), zip : OptionOf({"N1 9GU"}),
     first_name : OptionOf({"John"}), last_name : OptionOf({"Doe"})]

Address == [address : OptionOf(AddressDetails)]

PaymentAddress == [billing : OptionOf(Address)]

BrowserInformation ==
    [ip_address : OptionOf(IpAddresses), screen_width : Widths,
     accept_header : {"text/html"}, java_script_enabled : {TRUE},
     language : {"en-GB"}, user_agent : {"Mozilla/5.0"}]

PaymentsAuthorizeData ==
    [amount : Amounts, currency : Currencies,
     payment_method_data : PaymentMethods,
     browser_info : OptionOf(BrowserInformation)]

\* AttemptStatus::default()
AttemptStatus_default == "Pending"

\* every combination of present and absent optional fields; the outcome
\* fields are those of a value no connector has answered yet
PaymentsAuthorizeRouterData ==
    [description : OptionOf(Descriptions), payment_id : PaymentIds,
     return_url : OptionOf(ReturnUrls), address : PaymentAddress,
     request : PaymentsAuthorizeData, status : {AttemptStatus_default},
     response : {None}, error_response : {None}]

-----------------------------------------------------------------------------
(* connector/opayo/transformers.rs *)

\* format!("{:?}", currency): the Debug form of a field-less enum is the
\* name of its variant
DebugFmt(e) == e.variant

\* IpAddr::to_string: dotted decimal
IpToString(ip) ==
    ToString(ip[1]) \o "." \o ToString(ip[2]) \o "." \o ToString(ip[3])
        \o "." \o ToString(ip[4])

\* getWindowSize with open upper bounds
getWindowSize_open(w) ==
    IF w < 250 THEN "Small"
    ELSE IF w < 390 THEN "Medium"
    ELSE IF w < 500 THEN "Large"
    ELSE IF w < 600 THEN "ExtraLarge"
    ELSE "FullScreen"

getWindowSize(w) ==
    IF w <= 250 THEN "Small"
    ELSE IF w <= 390 THEN "Medium"
    ELSE IF w <= 500 THEN "Large"
    ELSE IF w <= 600 THEN "ExtraLarge"
    ELSE "FullScreen"

\* line 72
description(_item) ==
    ok_or(_item.description, MissingRequiredField("item.description"))

\* lines 74-86
payment_method(_item) ==
    IF _item.request.payment_method_data.variant = "Card"
    THEN Ok([card |-> [merchant_session_key |-> "No idea",
                       card_identifier |-> "No idea",
                       reusable |-> FALSE, save |-> FALSE]])
    ELSE Err(NotImplemented(<<"Unknown", "payment", "method">>))

\* lines 87-91
browser_info(_item) ==
    ok_or(_item.request.browser_info, MissingRequiredField("browser_info"))

\* lines 92-96
notification_url(_item) ==
    ok_or(_item.return_url, MissingRequiredField("notification_url"))

\* address, reporting the absent billing under another name
address_misnamed(_item) ==
    ok_or(_item.address.billing, MissingRequiredField("address1"))

\* lines 98-102
address(_item) ==
    ok_or(_item.address.billing, MissingRequiredField("billing_address"))

\* lines 104-108
actualAddress(addr) ==
    ok_or(addr.address, MissingRequiredField("billing_address"))

\* billing_address reading the city before the first address line
billing_address_city_first(actual) ==
    LET address1 == ok_or(actual.line1, MissingRequiredField("address1"))
        city == ok_or(actual.city, MissingRequiredField("city"))
        country == ok_or(actual.country, MissingRequiredField("country"))
        postalCode == ok_or(actual.zip, MissingRequiredField("zip"))
    IN  IF ~city.ok THEN city
        ELSE IF ~address1.ok THEN address1
        ELSE IF ~country.ok THEN country
        ELSE IF ~postalCode.ok THEN postalCode
        ELSE Ok([address1 |-> address1.val, city |-> city.val,
                 country |-> country.val, postalCode |-> postalCode.val])

\* billing_address with unwrap_or_default in place of ok_or(..)?: an absent
\* field becomes the empty string
billing_address_defaulting(actual) ==
    LET dflt(o) == IF IsSome(o) THEN Unwrap(o) ELSE ""
    IN  Ok([address1 |-> dflt(actual.line1), city |-> dflt(actual.city),
            country |-> dflt(actual.country), postalCode |-> dflt(actual.zip)])

\* lines 110-115: the four fields are read in this order, the first absent
\* one ends the conversion
billing_address(actual) ==
    LET address1 == ok_or(actual.line1, MissingRequiredField("address1"))
        city == ok_or(actual.city, MissingRequiredField("city"))
        country == ok_or(actual.country, MissingRequiredField("country"))
        postalCode == ok_or(actual.zip, MissingRequiredField("zip"))
    IN  IF ~address1.ok THEN address1
        ELSE IF ~city.ok THEN city
        ELSE IF ~country.ok THEN country
        ELSE IF ~postalCode.ok THEN postalCode
        ELSE Ok([address1 |-> address1.val, city |-> city.val,
                 country |-> country.val, postalCode |-> postalCode.val])

\* line 116
ipAddr(browser) ==
    ok_or(browser.ip_address, MissingRequiredField("browserIP"))

\* lines 117-126
strong_customer_authentication(url, browser, ip) ==
    [notificationURL |-> url,
     browserIP |-> IpToString(ip),
     browserAcceptHeader |-> browser.accept_header,
     browserJavascriptEnabled |-> browser.java_script_enabled,
     browserLanguage |-> browser.language,
     browserUserAgent |-> browser.user_agent,
     challengeWindowSize |-> getWindowSize(browser.screen_width),
     transType |-> "GoodsAndServicePurchase"]

\* line 135
customer_first_name(actual) ==
    ok_or(actual.first_name, MissingRequiredField("first_name"))

\* line 136
customer_last_name(actual) ==
    ok_or(actual.last_name, MissingRequiredField("last_name"))

\* impl TryFrom<&PaymentsAuthorizeRouterData> for OpayoPaymentsRequest:
\* each `?` returns the error of the first step that fails
OpayoPaymentsRequest_try_from(_item) ==
    LET amount == _item.request.amount
        currency == DebugFmt(_item.request.currency)
        d == description(_item)
        vendor_tx_code == _item.payment_id
        pm == payment_method(_item)
        bi == browser_info(_item)
        nu == notification_url(_item)
        ad == address(_item)
    IN  IF ~d.ok THEN d
        ELSE IF ~pm.ok THEN pm
        ELSE IF ~bi.ok THEN bi
        ELSE IF ~nu.ok THEN nu
        ELSE IF ~ad.ok THEN ad
        ELSE LET aa == actualAddress(ad.val) IN
        IF ~aa.ok THEN aa
        ELSE LET ba == billing_address(aa.val) IN
        IF ~ba.ok THEN ba
        ELSE LET ip == ipAddr(bi.val) IN
        IF ~ip.ok THEN ip
        ELSE LET sca == strong_customer_authentication(nu.val, bi.val, ip.val)
                 fn == customer_first_name(aa.val)
                 ln == customer_last_name(aa.val)
        IN
        IF ~fn.ok THEN fn
        ELSE IF ~ln.ok THEN ln
        ELSE Ok([transaction_type |-> "Payment",
                 payment_method |-> pm.val,
                 vendor_tx_code |-> vendor_tx_code,
                 amount |-> amount,
                 currency |-> currency,
                 description |-> d.val,
                 customer_first_name |-> fn.val,
                 customer_last_name |-> ln.val,
                 billing_address |-> ba.val,
                 apply3_d_secure |-> "UseMSPSetting",
                 strong_customer_authentication |-> sca,
                 credential_type |-> None])

-----------------------------------------------------------------------------
(* Merchant credentials and the Opayo auth type. *)

ApiKeys == {"key_a", "key_b", "key_c"}

HeaderKey(k) == [variant |-> "HeaderKey", api_key |-> k]
BodyKey(k, k1) == [variant |-> "BodyKey", api_key |-> k, key1 |-> k1]
SignatureKey(k, k1, s) ==
    [variant |-> "SignatureKey", api_key |-> k, key1 |-> k1, api_secret |-> s]

ConnectorAuthType ==
    {HeaderKey(k) : k \in ApiKeys}
        \cup {BodyKey(k, k1) : k \in ApiKeys, k1 \in ApiKeys}
        \cup {SignatureKey(k, k1, sec) : k \in ApiKeys, k1 \in ApiKeys, sec \in ApiKeys}

\* the auth type conversion taking the api_key of any variant but SignatureKey
OpayoAuthType_try_from_lenient(_auth_type) ==
    IF _auth_type.variant \in {"HeaderKey", "BodyKey"}
    THEN Ok([api_key |-> _auth_type.api_key])
    ELSE Err(FailedToObtainAuthType)

\* impl TryFrom<&ConnectorAuthType> for OpayoAuthType
OpayoAuthType_try_from(_auth_type) ==
    IF _auth_type.variant = "HeaderKey"
    THEN Ok([api_key |-> _auth_type.api_key])
    ELSE Err(FailedToObtainAuthType)

-----------------------------------------------------------------------------
(* Payment response. *)

OpayoPaymentStatus == {"Succeeded", "Failed", "Processing"}
TransactionIds == {"", "txn_1", "txn_2"}
OpayoPaymentsResponse == [status : OpayoPaymentStatus, id : TransactionIds]

\* the status mapping with Processing taken for a failure
AttemptStatus_from_collapsed(st) ==
    CASE st = "Succeeded" -> "Charged"
      [] st = "Failed" -> "Failure"
      [] st = "Processing" -> "Failure"

\* impl From<OpayoPaymentStatus> for enums::AttemptStatus
AttemptStatus_from(st) ==
    CASE st = "Succeeded" -> "Charged"
      [] st = "Failed" -> "Failure"
      [] st = "Processing" -> "Authorizing"

ConnectorTransactionId(id) == [variant |-> "ConnectorTransactionId", id |-> id]

TransactionResponse(rid) ==
    [variant |-> "TransactionResponse", resource_id |-> rid,
     redirection_data |-> None, redirect |-> FALSE,
     mandate_reference |-> None, connector_metadata |-> None]

\* the domain data a response is reduced into: what it held before.  Its
\* two outcome fields are Options, both None on a value no connector has
\* answered yet, and at most one of them is set.
PriorStatuses == {AttemptStatus_default, "Authorizing", "Charged", "Failure"}
ErrorResponse == [variant |-> "ErrorResponse", code |-> "", message |-> ""]
PriorResponses ==
    OptionOf({TransactionResponse(ConnectorTransactionId("txn_0"))})

RouterData ==
    {d \in [merchant_id : {"merchant_1", "authorizedotnet"},
            payment_id : PaymentIds,
            connector : {"opayo", "authorizedotnet"}, status : PriorStatuses,
            response : PriorResponses,
            error_response : OptionOf({ErrorResponse}),
            auth_type : {"NoThreeDs"}, amount : {100}, currency : Currencies] :
        ~(IsSome(d.response) /\ IsSome(d.error_response))}

ResponseRouterData == [response : OpayoPaymentsResponse, data : RouterData]

\* the response conversion building on a fresh domain value instead of
\* ..item.data: the payment id is lost
RouterData_try_from_fresh(it) ==
    Ok([it.data EXCEPT
          !.status = AttemptStatus_from(it.response.status),
          !.response =
              Ok(TransactionResponse(ConnectorTransactionId(it.response.id))),
          !.payment_id = ""])

\* the response conversion taking the reference from the domain data's own
\* payment id
RouterData_try_from_own_id(it) ==
    Ok([it.data EXCEPT
          !.status = AttemptStatus_from(it.response.status),
          !.response =
              Ok(TransactionResponse(ConnectorTransactionId(it.data.payment_id)))])

\* impl TryFrom<ResponseRouterData<F, OpayoPaymentsResponse, T,
\* PaymentsResponseData>> for RouterData<F, T, PaymentsResponseData>:
\* status and response are written, whatever they held; ..item.data keeps
\* every other field, error_response included
RouterData_try_from(it) ==
    Ok([it.data EXCEPT
          !.status = AttemptStatus_from(it.response.status),
          !.response =
              Ok(TransactionResponse(ConnectorTransactionId(it.response.id)))])

-----------------------------------------------------------------------------
(* Refunds. *)

\* a conversion that unwinds instead of returning
Panic(msg) == [panic |-> msg]

\* the conversion handed a Result back to its caller
Returned(r) == "ok" \in DOMAIN r

ConnectorTransactionIds == {"", "1234", "abfbc35c-4825-4dd4-ab2d-fae0acc22389"}

RefundsRequestData ==
    [refund_id : {"ref_1"}, payment_method_data : {Card},
     connector_transaction_id : ConnectorTransactionIds,
     refund_amount : {1}]

RefundsRouterData ==
    [flow : {"Execute", "RSync"}, payment_id : PaymentIds, amount : {100},
     currency : Currencies, request : RefundsRequestData,
     status : {AttemptStatus_default}, response : {None},
     error_response : {None}]

\* pub struct RefundResponse {}
RefundResponse == [type |-> "RefundResponse"]

\* enum RefundStatus of the Opayo wire format
OpayoRefundStatus == {"Succeeded", "Failed", "Processing"}

\* impl From<RefundStatus> for enums::RefundStatus
RefundStatus_from(st) ==
    CASE st = "Succeeded" -> "Success"
      [] st = "Failed" -> "Failure"
      [] st = "Processing" -> "Pending"

\* impl<F> TryFrom<&RefundsRouterData<F>> for OpayoRefundRequest: todo!()
OpayoRefundRequest_try_from(_item) == Panic("not yet implemented")

\* impl TryFrom<RefundsResponseRouterData<Execute, RefundResponse>> for
\* RefundsRouterData<Execute>: todo!()
RefundsRouterData_Execute_try_from(_item) == Panic("not yet implemented")

\* impl TryFrom<RefundsResponseRouterData<RSync, RefundResponse>> for
\* RefundsRouterData<RSync>: todo!()
RefundsRouterData_RSync_try_from(_item) == Panic("not yet implemented")

\* the inputs of the three refund conversions
RefundConversionInputs ==
    {[conversion |-> "request", data |-> d] : d \in RefundsRouterData}
        \cup {[conversion |-> "response",
               data |-> [response |-> RefundResponse, data |-> d]] :
                 d \in RefundsRouterData}

-----------------------------------------------------------------------------
(* core/errors.rs: the top-level error and the lifting conversions.        *)

\* impl_error_type!: unit structs with a fixed description
UnitErrors ==
    {[type |-> "AuthenticationError", detail |-> "Authentication error"],
     [type |-> "AuthorisationError", detail |-> "Authorisation error"],
     [type |-> "EncryptionError", detail |-> "Encryption error"],
     [type |-> "ParsingError", detail |-> "Parsing error"],
     [type |-> "UnexpectedError", detail |-> "Unexpected error"],
     [type |-> "ValidateError", detail |-> "validation failed"]}

DatabaseErrors ==
    [type : {"DatabaseError"},
     detail : {"DatabaseConnectionError", "NotFound", "UniqueViolation", "Others"}]

\* errors of other crates, opaque here
ForeignErrors ==
    [type : {"MetricsError"}, detail : {"metrics"}]
        \cup [type : {"io::Error"}, detail : {"broken pipe", "timed out"}]
        \cup [type : {"ConfigError"}, detail : {"not found"}]

StorageErrors ==
    [type : {"StorageError"},
     detail : {"DatabaseError", "ValueNotFound", "DuplicateValue", "KVError"}]

RedisErrors ==
    [type : {"RedisError"}, detail : {"SetFailed", "GetFailed", "DeleteFailed"}]

ValidationErrors ==
    [type : {"ValidationError"},
     detail : {"MissingRequiredField", "IncorrectValueProvided"}]

ApiErrorResponses ==
    [type : {"ApiErrorResponse"}, detail : {"NotImplemented", "InternalServerError"}]

Strings == [type : {"String"}, detail : {"opayo"}]

\* enum BachError: the payload type of each variant
BachErrorPayload ==
    [EAuthenticationError |-> "AuthenticationError",
     EAuthorisationError |-> "AuthorisationError",
     NotImplementedByConnector |-> "String",
     EUnexpectedError |-> "UnexpectedError",
     EParsingError |-> "ParsingError",
     ConfigurationError |-> "ConfigError",
     EValidationError |-> "ValidateError",
     EDatabaseError |-> "DatabaseError",
     EEncryptionError |-> "EncryptionError",
     EMetrics |-> "MetricsError",
     EIo |-> "io::Error"]

BachErrorVariants == DOMAIN BachErrorPayload

BachErrorInputs == UnitErrors \cup DatabaseErrors \cup ForeignErrors \cup Strings

BachError ==
    {e \in [variant : BachErrorVariants, payload : BachErrorInputs] :
        e.payload.type = BachErrorPayload[e.variant]}

\* router_error_error_stack_specific! invocations and the From impls for
\* BachError: source type |-> the variant its From::from builds
BachError_From ==
    ("ValidateError" :> "EValidationError")
        @@ ("DatabaseError" :> "EDatabaseError")
        @@ ("AuthenticationError" :> "EAuthenticationError")
        @@ ("UnexpectedError" :> "EUnexpectedError")
        @@ ("ParsingError" :> "EParsingError")
        @@ ("EncryptionError" :> "EEncryptionError")
        @@ ("MetricsError" :> "EMetrics")
        @@ ("io::Error" :> "EIo")
        @@ ("ConfigError" :> "ConfigurationError")

\* From::from for BachError; None where the source type has no From impl
BachError_from(err) ==
    IF err.type \in DOMAIN BachError_From
    THEN Some([variant |-> BachError_From[err.type], payload |-> err])
    ELSE None

\* error_to_process_tracker_error! invocations
ProcessTrackerError_From ==
    ("ApiErrorResponse" :> "EApiErrorResponse")
        @@ ("StorageError" :> "EStorageError")
        @@ ("RedisError" :> "ERedisError")
        @@ ("ParsingError" :> "EParsingError")
        @@ ("ValidationError" :> "EValidationError")

\* From::from for ProcessTrackerError
ProcessTrackerError_from(err) ==
    IF err.type \in DOMAIN ProcessTrackerError_From
    THEN Some([variant |-> ProcessTrackerError_From[err.type], payload |-> err])
    ELSE None

\* the error kinds of the layers below BachError and ProcessTrackerError
BachSources == UnitErrors \cup DatabaseErrors \cup ForeignErrors
ProcessTrackerSources ==
    ApiErrorResponses \cup StorageErrors \cup RedisErrors \cup ValidationErrors
        \cup {e \in UnitErrors : e.type = "ParsingError"}

BAD_REQUEST == 400
INTERNAL_SERVER_ERROR == 500

\* the #[error("...")] text of each BachError variant
BachErrorDescription ==
    [EAuthenticationError |-> "Error while Authenticating",
     EAuthorisationError |-> "Error while Authorizing",
     NotImplementedByConnector |-> "Connector implementation missing",
     EUnexpectedError |-> "Unexpected error",
     EParsingError |-> "Error while parsing",
     ConfigurationError |-> "Environment configuration error",
     EValidationError |-> "Error while validating",
     EDatabaseError |-> "Database operation failed",
     EEncryptionError |-> "Encryption module operation failed",
     EMetrics |-> "Metrics error",
     EIo |-> "I/O"]

\* Display for BachError: the description and the payload's own Display
Display(err) == <<BachErrorDescription[err.variant], err.payload.detail>>

\* fn error_response<T: Display>(err: &T)
error_response(err) ==
    [status |-> BAD_REQUEST,
     via |-> "Juspay_Router",
     content_type |-> "application/json",
     body |-> [error |-> [message |-> Display(err)]]]

\* status_code with the authorisation error counted as a server error
status_code_authz_500(self) ==
    CASE self.variant \in {"EParsingError", "EAuthenticationError",
                           "EValidationError"}
            -> BAD_REQUEST
      [] self.variant \in {"EDatabaseError", "NotImplementedByConnector",
                           "EMetrics", "EIo", "ConfigurationError",
                           "EEncryptionError", "EUnexpectedError",
                           "EAuthorisationError"}
            -> INTERNAL_SERVER_ERROR

\* ResponseError::status_code for BachError
status_code(self) ==
    CASE self.variant \in {"EParsingError", "EAuthenticationError",
                           "EAuthorisationError", "EValidationError"}
            -> BAD_REQUEST
      [] self.variant \in {"EDatabaseError", "NotImplementedByConnector",
                           "EMetrics", "EIo", "ConfigurationError",
                           "EEncryptionError", "EUnexpectedError"}
            -> INTERNAL_SERVER_ERROR

\* ResponseError::error_response for BachError
BachError_error_response(self) == error_response(self)

-----------------------------------------------------------------------------
(* The Processing-Step Executor, the Registry and the transport            *)
(* (services::api::execute_connector_processing_step and its               *)
(* collaborators), after sections 4.4, 4.5 and 6 of the specification.     *)
(* The caller resolves the connector integration first and hands it to the *)
(* executor together with the domain value and the dispatch mode           *)
(* (tests/connectors/authorizedotnet.rs).                                  *)

\* ConnectorError::InvalidConnectorName
InvalidConnectorName == [kind |-> "InvalidConnectorName"]

\* the connectors the Registry holds
Registry == {"opayo", "authorizedotnet"}

ConnectorIds == Registry \cup {"nonexistent"}

Flows == {"Authorize", "Execute", "RSync"}

\* what the caller asks the Registry for: a connector and a flow
ConnectorNames == [connector : ConnectorIds, flow : Flows]

\* the Registry falling back to a connector it knows
get_connector_with_default(id) ==
    IF id \in Registry THEN Ok(id) ELSE Ok("opayo")

\* Registry lookup
get_connector(id) ==
    IF id \in Registry THEN Ok(id) ELSE Err(InvalidConnectorName)

\* an authorize input with everything Opayo requires
CompleteItem ==
    [description |-> Some("This is a test"), payment_id |-> "pay_1",
     return_url |-> Some("https://router.example/return"),
     address |->
        [billing |-> Some([address |-> Some(
            [line1 |-> Some("1 Main St"), city |-> Some("London"),
             country |-> Some("GB"), zip |-> Some("N1 9GU"),
             first_name |-> Some("John"), last_name |-> Some("Doe")])])],
     request |->
        [amount |-> 100, currency |-> USD, payment_method_data |-> Card,
         browser_info |-> Some(
            [ip_address |-> Some(<<127, 0, 0, 1>>), screen_width |-> 390,
             accept_header |-> "text/html", java_script_enabled |-> TRUE,
             language |-> "en-GB", user_agent |-> "Mozilla/5.0"])],
     status |-> AttemptStatus_default, response |-> None,
     error_response |-> None]

\* construct_payment_router_data(): a card payment of 100 USD with a
\* description, no return url, the default (empty) address and no browser
\* information
construct_payment_router_data ==
    [CompleteItem EXCEPT !.return_url = None,
                         !.address = [billing |-> None],
                         !.request.browser_info = None]

\* the authorize inputs handed to the executor
StepItems ==
    {CompleteItem,
     construct_payment_router_data,
     [construct_payment_router_data EXCEPT
         !.request.browser_info = CompleteItem.request.browser_info],
     [CompleteItem EXCEPT !.address = [billing |-> None]],
     [CompleteItem EXCEPT !.description = None],
     [CompleteItem EXCEPT !.request.payment_method_data = [variant |-> "Wallet"]]}

\* CallConnectorAction: Trigger, or the mode that sends nothing
Modes == {"Trigger", "Avoid"}

\* what the transport returns: an HTTP status and a body; status 0 stands
\* for a request that never got an answer
HttpStatuses == {200, 400, 401, 403, 404, 405, 408, 418, 422, 429, 500, 502, 503, 504}
NotSent == [status |-> 0, body |-> [status |-> "", id |-> ""]]

Bodies(status) ==
    IF status = 200
    THEN [status : {"Succeeded", "Failed", "Processing", "garbled"}, id : {"txn_1"}]
    ELSE {[status |-> "Error", id |-> ""]}

Answers == {[status |-> st, body |-> b] : st \in HttpStatuses, b \in Bodies(200)
                \cup Bodies(400)}

TransportReplies ==
    {a \in Answers : a.body \in Bodies(a.status)} \cup {NotSent}

\* a resolved connector integration: the connector's implementation for
\* one flow
ConnectorIntegrations == [connector : Registry, flow : Flows]

\* the arguments of execute_connector_processing_step(state,
\* connector_integration, request, call_connector_action): an integration
\* the caller has resolved, the domain value of its flow and the mode
StepInputs ==
    {i \in [integration : ConnectorIntegrations, mode : Modes,
            data : StepItems \cup RefundsRouterData] :
        /\ (i.integration.flow = "Authorize") <=> (i.data \in StepItems)
        /\ (i.integration.flow # "Authorize") =>
              i.data.flow = i.integration.flow}

\* the outcome fields of a domain value nothing was attached to
Unset ==
    [status |-> AttemptStatus_default, response |-> None,
     error_response |-> None]

\* ApiClientError of an HTTP status, with 429 taken for any other failure
ApiClientError_of_status_unspecific(st) ==
    [kind |-> "UnexpectedServerResponse"]

\* the ApiClientError variant of a non-2xx HTTP status
ApiClientError_of_status(st) ==
    [kind |->
        CASE st = 400 -> "BadRequestReceived"
          [] st = 401 -> "UnauthorizedReceived"
          [] st = 403 -> "ForbiddenReceived"
          [] st = 404 -> "NotFoundReceived"
          [] st = 405 -> "MethodNotAllowedReceived"
          [] st = 408 -> "RequestTimeoutReceived"
          [] st = 422 -> "UnprocessableEntityReceived"
          [] st = 429 -> "TooManyRequestsReceived"
          [] st = 500 -> "InternalServerErrorReceived"
          [] st = 502 -> "BadGatewayReceived"
          [] st = 503 -> "ServiceUnavailableReceived"
          [] st = 504 -> "GatewayTimeoutReceived"
          [] OTHER -> "UnexpectedServerResponse"]

RequestNotSent == [kind |-> "RequestNotSent"]
StepParsingError == [kind |-> "ParsingError"]

\* the wire request of a connector whose transformer is not part of
\* connector/opayo: the executor hands it to the transport unread
ConnectorRequest == [variant |-> "ConnectorRequest"]

\* ConnectorError kinds a transformer may refuse a domain value with
TransformerErrors ==
    {FailedToObtainAuthType, [kind |-> "RequestEncodingFailed"]}

\* what to_wire_request of the resolved connector may return.  Opayo's
\* conversions are those of connector/opayo/transformers.rs; of any other
\* connector only the contract is known: Ok with a wire request or a
\* ConnectorError.
to_wire_request(connector, flow, data) ==
    CASE connector = "opayo" /\ flow = "Authorize" ->
            {OpayoPaymentsRequest_try_from(data)}
      [] connector = "opayo" /\ flow # "Authorize" ->
            {OpayoRefundRequest_try_from(data)}
      [] connector # "opayo" ->
            {Ok(ConnectorRequest)} \cup {Err(e) : e \in TransformerErrors}

\* enums::RefundStatus
RefundStatuses == {"Success", "Failure", "Pending"}

\* the response payloads a transformer may reduce a body into
ResponsePayloads(flow) ==
    IF flow = "Authorize"
    THEN {TransactionResponse(ConnectorTransactionId(id)) : id \in TransactionIds}
    ELSE [variant : {"RefundsResponseData"}, refund_status : RefundStatuses]

\* what from_wire_response of the resolved connector may return: the domain
\* value with the response reduced into it.  Opayo's conversions are those
\* of connector/opayo/transformers.rs; of any other connector only the
\* contract is known: Ok with a domain status and a response payload, or a
\* ParsingError.
from_wire_response(connector, flow, body, data) ==
    CASE connector = "opayo" /\ body.status \notin OpayoPaymentStatus ->
            {Err(StepParsingError)}
      [] connector = "opayo" /\ body.status \in OpayoPaymentStatus ->
            {CASE flow = "Authorize" ->
                    RouterData_try_from([response |-> body, data |-> data])
               [] flow = "Execute" ->
                    RefundsRouterData_Execute_try_from(
                        [response |-> RefundResponse, data |-> data])
               [] flow = "RSync" ->
                    RefundsRouterData_RSync_try_from(
                        [response |-> RefundResponse, data |-> data])}
      [] connector # "opayo" ->
            {Err(StepParsingError)} \cup
            {Ok([data EXCEPT !.status = st, !.response = Ok(p)]) :
                st \in PriorStatuses, p \in ResponsePayloads(flow)}

\* step 6: the outcome fields of the domain value the invocation holds
attach(reduced) ==
    [status |-> reduced.status, response |-> reduced.response,
     error_response |-> reduced.error_response]

\* a dispatch that sends the request a second time
calls_after_dispatch_resend(mode, n) ==
    IF mode = "Trigger" THEN n + 2 ELSE n

\* step 3: the transport is called in Trigger mode only
calls_after_dispatch(mode, n) ==
    IF mode = "Trigger" THEN n + 1 ELSE n

LastState == step_trace[Len(step_trace)]

Running(st) ==
    /\ IsSome(step) /\ IsNone(step_result)
    /\ step_trace # <<>> /\ LastState = st

\* the reply a transport that is not called hands back: whatever answer the
\* harness has put in place of the network
InjectedReplies == TransportReplies \ {NotSent}

\* the caller resolves the connector integration of its flow
GetConnector ==
    /\ IsSome(connector_name) /\ IsNone(integration)
    /\ integration' = Some(get_connector(Unwrap(connector_name).connector))
    /\ UNCHANGED <<conversionVars, refundVars, connector_name, step,
                   step_trace, wire_request, transport_calls, reply, outcome,
                   step_result>>

\* the caller hands the resolved integration, a domain value and the mode
\* to execute_connector_processing_step
StepCall ==
    /\ IsSome(integration) /\ Unwrap(integration).ok /\ IsNone(step)
    /\ \E i \in StepInputs :
          /\ i.integration =
                [connector |-> Unwrap(integration).val,
                 flow |-> Unwrap(connector_name).flow]
          /\ step' = Some(i)
          /\ outcome' = attach(i.data)
    /\ step_trace' = <<"NotStarted">>
    /\ UNCHANGED <<conversionVars, refundVars, connector_name, integration,
                   wire_request, transport_calls, reply, step_result>>

\* step 2: to_wire_request
StepBuildRequest ==
    /\ Running("NotStarted")
    /\ \E r \in to_wire_request(Unwrap(step).integration.connector,
                               Unwrap(step).integration.flow,
                               Unwrap(step).data) :
           IF Returned(r) /\ r.ok
           THEN /\ wire_request' = Some(r.val)
                /\ step_trace' = Append(step_trace, "RequestBuilt")
                /\ UNCHANGED step_result
           ELSE /\ step_result' = Some(r)
                /\ UNCHANGED <<wire_request, step_trace>>
    /\ UNCHANGED <<conversionVars, refundVars, connector_name, step,
                   integration, transport_calls, reply, outcome>>

\* step 3: hand the request to the transport
StepDispatch ==
    /\ Running("RequestBuilt")
    /\ transport_calls' =
          calls_after_dispatch(Unwrap(step).mode, transport_calls)
    /\ step_trace' = Append(step_trace, "Dispatched")
    /\ UNCHANGED <<conversionVars, refundVars, connector_name, step,
                   integration, wire_request, reply, outcome, step_result>>

\* steps 3 and 4: the transport's answer, or the injected one
StepReceive ==
    /\ Running("Dispatched")
    /\ \E r \in TransportReplies :
          /\ (Unwrap(step).mode = "Trigger") \/ (r \in InjectedReplies)
          /\ reply' = Some(r)
          /\ IF r = NotSent
             THEN /\ step_result' = Some(Err(RequestNotSent))
                  /\ UNCHANGED step_trace
             ELSE IF r.status # 200
             THEN /\ step_result' = Some(Err(ApiClientError_of_status(r.status)))
                  /\ UNCHANGED step_trace
             ELSE /\ step_trace' = Append(step_trace, "ResponseReceived")
                  /\ UNCHANGED step_result
    /\ UNCHANGED <<conversionVars, refundVars, connector_name, step,
                   integration, wire_request, transport_calls, outcome>>

\* steps 5 and 6: from_wire_response, attach the outcome, return
StepReduce ==
    /\ Running("ResponseReceived")
    /\ \E r \in from_wire_response(Unwrap(step).integration.connector,
                                  Unwrap(step).integration.flow,
                                  Unwrap(reply).body, Unwrap(step).data) :
           IF Returned(r) /\ r.ok
           THEN /\ outcome' = attach(r.val)
                /\ step_trace' = Append(step_trace, "Reduced")
                /\ step_result' = Some(r)
           ELSE /\ step_result' = Some(r)
                /\ UNCHANGED <<outcome, step_trace>>
    /\ UNCHANGED <<conversionVars, refundVars, connector_name, step,
                   integration, wire_request, transport_calls, reply>>

-----------------------------------------------------------------------------
(* The state machine: one conversion applied to one input.                 *)

\* the other inputs are absent
Only(v) ==
    /\ (v # "item") => item = None
    /\ (v # "width") => width = None
    /\ (v # "auth_type") => auth_type = None
    /\ (v # "response_item") => response_item = None
    /\ (v # "bach_error") => bach_error = None
    /\ (v # "lower_error") => lower_error = None
    /\ (v # "refund_item") => refund_item = None
    /\ (v # "connector_name") => connector_name = None

Init ==
    /\ request = None /\ window_size = None /\ opayo_auth = None
    /\ router_data = None /\ status_code_out = None /\ http_response = None
    /\ lifted = None /\ refund_out = None
    /\ step = None /\ step_trace = <<>> /\ integration = None
    /\ wire_request = None /\ transport_calls = 0
    /\ reply = None /\ step_result = None
    /\ outcome = Unset
    /\ \/ item \in {Some(i) : i \in PaymentsAuthorizeRouterData} /\ Only("item")
       \/ width \in {Some(w) : w \in 0..MaxWidth} /\ Only("width")
       \/ auth_type \in {Some(a) : a \in ConnectorAuthType} /\ Only("auth_type")
       \/ response_item \in {Some(r) : r \in ResponseRouterData}
            /\ Only("response_item")
       \/ bach_error \in {Some(e) : e \in BachError} /\ Only("bach_error")
       \/ lower_error \in {Some(e) : e \in BachSources \cup ProcessTrackerSources}
            /\ Only("lower_error")
       \/ refund_item \in {Some(r) : r \in RefundConversionInputs}
            /\ Only("refund_item")
       \/ connector_name \in {Some(n) : n \in ConnectorNames}
            /\ Only("connector_name")

\* OpayoPaymentsRequest::try_from(&item)
TryFromAuthorize ==
    /\ IsSome(item) /\ IsNone(request)
    /\ request' = Some(OpayoPaymentsRequest_try_from(Unwrap(item)))
    /\ UNCHANGED <<item, width, window_size, auth_type, opayo_auth,
                   response_item, router_data, bach_error, status_code_out,
                   http_response, lower_error, lifted>>
    /\ UNCHANGED <<refundVars, stepVars>>

\* getWindowSize(width)
GetWindowSize ==
    /\ IsSome(width) /\ IsNone(window_size)
    /\ window_size' = Some(getWindowSize(Unwrap(width)))
    /\ UNCHANGED <<item, request, width, auth_type, opayo_auth,
                   response_item, router_data, bach_error, status_code_out,
                   http_response, lower_error, lifted>>
    /\ UNCHANGED <<refundVars, stepVars>>

\* OpayoAuthType::try_from(&auth_type)
TryFromAuthType ==
    /\ IsSome(auth_type) /\ IsNone(opayo_auth)
    /\ opayo_auth' = Some(OpayoAuthType_try_from(Unwrap(auth_type)))
    /\ UNCHANGED <<item, request, width, window_size, auth_type,
                   response_item, router_data, bach_error, status_code_out,
                   http_response, lower_error, lifted>>
    /\ UNCHANGED <<refundVars, stepVars>>

\* RouterData::try_from(response_item)
TryFromResponse ==
    /\ IsSome(response_item) /\ IsNone(router_data)
    /\ router_data' = Some(RouterData_try_from(Unwrap(response_item)))
    /\ UNCHANGED <<item, request, width, window_size, auth_type, opayo_auth,
                   response_item, bach_error, status_code_out,
                   http_response, lower_error, lifted>>
    /\ UNCHANGED <<refundVars, stepVars>>

\* bach_error.status_code()
StatusCode ==
    /\ IsSome(bach_error) /\ IsNone(status_code_out)
    /\ status_code_out' = Some(status_code(Unwrap(bach_error)))
    /\ UNCHANGED <<item, request, width, window_size, auth_type, opayo_auth,
                   response_item, router_data, bach_error,
                   http_response, lower_error, lifted>>
    /\ UNCHANGED <<refundVars, stepVars>>

\* bach_error.error_response()
ErrorResponseCall ==
    /\ IsSome(bach_error) /\ IsNone(http_response)
    /\ http_response' = Some(BachError_error_response(Unwrap(bach_error)))
    /\ UNCHANGED <<item, request, width, window_size, auth_type, opayo_auth,
                   response_item, router_data, bach_error, status_code_out,
                   lower_error, lifted>>
    /\ UNCHANGED <<refundVars, stepVars>>

\* BachError::from(lower_error), for the kinds of the layer below BachError
IntoBachError ==
    /\ IsSome(lower_error) /\ IsNone(lifted)
    /\ Unwrap(lower_error) \in BachSources
    /\ lifted' = Some([target |-> "BachError",
                       result |-> BachError_from(Unwrap(lower_error))])
    /\ UNCHANGED <<item, request, width, window_size, auth_type, opayo_auth,
                   response_item, router_data, bach_error, status_code_out,
                   http_response, lower_error>>
    /\ UNCHANGED <<refundVars, stepVars>>

\* ProcessTrackerError::from(lower_error)
IntoProcessTrackerError ==
    /\ IsSome(lower_error) /\ IsNone(lifted)
    /\ Unwrap(lower_error) \in ProcessTrackerSources
    /\ lifted' = Some([target |-> "ProcessTrackerError",
                       result |-> ProcessTrackerError_from(Unwrap(lower_error))])
    /\ UNCHANGED <<item, request, width, window_size, auth_type, opayo_auth,
                   response_item, router_data, bach_error, status_code_out,
                   http_response, lower_error>>
    /\ UNCHANGED <<refundVars, stepVars>>

\* OpayoRefundRequest::try_from(&refund_item)
TryFromRefund ==
    /\ IsSome(refund_item) /\ IsNone(refund_out)
    /\ Unwrap(refund_item).conversion = "request"
    /\ refund_out' = Some(OpayoRefundRequest_try_from(Unwrap(refund_item).data))
    /\ UNCHANGED <<conversionVars, refund_item, stepVars>>

\* RefundsRouterData::<Execute>::try_from(refund_item)
TryFromRefundExecuteResponse ==
    /\ IsSome(refund_item) /\ IsNone(refund_out)
    /\ Unwrap(refund_item).conversion = "response"
    /\ Unwrap(refund_item).data.data.flow = "Execute"
    /\ refund_out' =
          Some(RefundsRouterData_Execute_try_from(Unwrap(refund_item).data))
    /\ UNCHANGED <<conversionVars, refund_item, stepVars>>

\* RefundsRouterData::<RSync>::try_from(refund_item)
TryFromRefundSyncResponse ==
    /\ IsSome(refund_item) /\ IsNone(refund_out)
    /\ Unwrap(refund_item).conversion = "response"
    /\ Unwrap(refund_item).data.data.flow = "RSync"
    /\ refund_out' =
          Some(RefundsRouterData_RSync_try_from(Unwrap(refund_item).data))
    /\ UNCHANGED <<conversionVars, refund_item, stepVars>>

Next ==
    \/ TryFromAuthorize
    \/ GetWindowSize
    \/ TryFromAuthType
    \/ TryFromResponse
    \/ StatusCode
    \/ ErrorResponseCall
    \/ IntoBachError
    \/ IntoProcessTrackerError
    \/ TryFromRefund
    \/ TryFromRefundExecuteResponse
    \/ TryFromRefundSyncResponse
    \/ GetConnector
    \/ StepCall
    \/ StepBuildRequest
    \/ StepDispatch
    \/ StepReceive
    \/ StepReduce

Spec == Init /\ [][Next]_vars

-----------------------------------------------------------------------------
(* Properties of to_wire_request (OpayoPaymentsRequest::try_from).         *)

TheItem == Unwrap(item)
TheRequest == Unwrap(request)

\* the fields the Opayo API requires, and the field_name reported for each
RequiredFields ==
    {"description", "line1", "city", "country", "zip", "ip_address",
     "browser_info", "return_url", "first_name", "last_name"}

FieldName ==
    [description |-> "item.description", line1 |-> "address1",
     city |-> "city", country |-> "country", zip |-> "zip",
     ip_address |-> "browserIP", browser_info |-> "browser_info",
     return_url |-> "notification_url", first_name |-> "first_name",
     last_name |-> "last_name"]

HasAddressDetails(i) ==
    IsSome(i.address.billing) /\ IsSome(Unwrap(i.address.billing).address)

Details(i) == Unwrap(Unwrap(i.address.billing).address)

IsAbsent(i, f) ==
    CASE f = "description" -> IsNone(i.description)
      [] f = "return_url" -> IsNone(i.return_url)
      [] f = "browser_info" -> IsNone(i.request.browser_info)
      [] f = "ip_address" ->
            /\ IsSome(i.request.browser_info)
            /\ IsNone(Unwrap(i.request.browser_info).ip_address)
      [] f = "line1" -> HasAddressDetails(i) /\ IsNone(Details(i).line1)
      [] f = "city" -> HasAddressDetails(i) /\ IsNone(Details(i).city)
      [] f = "country" -> HasAddressDetails(i) /\ IsNone(Details(i).country)
      [] f = "zip" -> HasAddressDetails(i) /\ IsNone(Details(i).zip)
      [] f = "first_name" -> HasAddressDetails(i) /\ IsNone(Details(i).first_name)
      [] f = "last_name" -> HasAddressDetails(i) /\ IsNone(Details(i).last_name)

AbsentFields(i) == {f \in RequiredFields : IsAbsent(i, f)}

IsCard(i) == i.request.payment_method_data = Card

\* C1: a Card input in which exactly one of the fields the Opayo API requires
\* is absent is refused with MissingRequiredField carrying the name of that
\* field and of no other required field; no wire request is returned.
C1_MissingFieldNamed ==
    (IsSome(item) /\ IsSome(request)) =>
        \A f \in RequiredFields :
            (/\ IsCard(TheItem)
             /\ HasAddressDetails(TheItem)
             /\ AbsentFields(TheItem) = {f})
            => /\ ~TheRequest.ok
               /\ TheRequest.err = MissingRequiredField(FieldName[f])
               /\ \A g \in RequiredFields \ {f} :
                     TheRequest.err.field_name # FieldName[g]

\* the conversion was applied to a Card input lacking only the city
C1_Witness ==
    /\ IsSome(item) /\ IsSome(request)
    /\ IsCard(TheItem) /\ HasAddressDetails(TheItem)
    /\ AbsentFields(TheItem) = {"city"}
    /\ ~TheRequest.ok

\* complete but for the billing address: amount 100, USD, Card, description,
\* browser info with IP and return URL present
CompleteButBilling(i) ==
    /\ i.request.amount = 100
    /\ i.request.currency = USD
    /\ IsCard(i)
    /\ IsSome(i.description)
    /\ IsSome(i.request.browser_info)
    /\ IsSome(Unwrap(i.request.browser_info).ip_address)
    /\ IsSome(i.return_url)
    /\ IsNone(i.address.billing)

\* C2: an otherwise complete input without billing address is refused with
\* MissingRequiredField{field_name = "billing_address"}.
C2_BillingAddressAbsent ==
    (IsSome(item) /\ IsSome(request) /\ CompleteButBilling(TheItem)) =>
        /\ ~TheRequest.ok
        /\ TheRequest.err.kind = "MissingRequiredField"
        /\ TheRequest.err.field_name = "billing_address"

C2_Witness ==
    /\ IsSome(item) /\ IsSome(request) /\ CompleteButBilling(TheItem)
    /\ ~TheRequest.ok

\* a message names a payment method when the method's name is one of its words
Names(msg, method) == \E k \in 1..Len(msg) : msg[k] = method.variant

\* C3: every input whose payment method is not Card is refused with a
\* NotImplemented error whose message names that payment method.
C3_NonCardNotImplementedNamed ==
    (IsSome(item) /\ IsSome(request) /\ ~IsCard(TheItem)) =>
        /\ ~TheRequest.ok
        /\ TheRequest.err.kind = "NotImplemented"
        /\ Names(TheRequest.err.message, TheItem.request.payment_method_data)

\* the challenge window category of a width, range by range
WindowCategories(w) ==
    {c \in {"Small", "Medium", "Large", "ExtraLarge", "FullScreen"} :
        \/ c = "Small" /\ w <= 250
        \/ c = "Medium" /\ 250 < w /\ w <= 390
        \/ c = "Large" /\ 390 < w /\ w <= 500
        \/ c = "ExtraLarge" /\ 500 < w /\ w <= 600
        \/ c = "FullScreen" /\ w > 600}

\* C6: the challenge window size, computed alone or placed in a wire
\* request, is the one category whose range holds the screen width; the
\* ranges <=250, <=390, <=500, <=600, >600 overlap nowhere and leave no gap.
C6_WindowSizeBuckets ==
    /\ (IsSome(width) /\ IsSome(window_size)) =>
          WindowCategories(Unwrap(width)) = {Unwrap(window_size)}
    /\ (IsSome(item) /\ IsSome(request) /\ TheRequest.ok) =>
          WindowCategories(Unwrap(TheItem.request.browser_info).screen_width)
              = {TheRequest.val.strong_customer_authentication.challengeWindowSize}

\* a wire request was built for a browser exactly 390 wide
C6_Witness ==
    /\ IsSome(item) /\ IsSome(request) /\ TheRequest.ok
    /\ Unwrap(TheItem.request.browser_info).screen_width = 390
    /\ TheRequest.val.strong_customer_authentication.challengeWindowSize = "Medium"

-----------------------------------------------------------------------------
(* Properties of the response and auth conversions.                        *)

TheWire == Unwrap(response_item).response
TheData == Unwrap(router_data)

\* C4: each wire status yields one domain status, Succeeded -> Charged,
\* Failed -> Failure, Processing -> Authorizing, and a domain status comes
\* from one wire status only.
C4_StatusMappingTotalInjective ==
    /\ \A a, b \in OpayoPaymentStatus :
          a # b => AttemptStatus_from(a) # AttemptStatus_from(b)
    /\ (IsSome(response_item) /\ IsSome(router_data)) =>
          /\ TheData.ok
          /\ TheData.val.status \in {"Charged", "Failure", "Authorizing"}
          /\ (TheData.val.status = "Charged") <=> (TheWire.status = "Succeeded")
          /\ (TheData.val.status = "Failure") <=> (TheWire.status = "Failed")
          /\ (TheData.val.status = "Authorizing") <=> (TheWire.status = "Processing")

\* a Processing response was reduced to Authorizing over a prior Failure
C4_Witness ==
    /\ IsSome(response_item) /\ IsSome(router_data)
    /\ TheWire.status = "Processing"
    /\ Unwrap(response_item).data.status = "Failure"
    /\ TheData.val.status = "Authorizing"

\* C5: a Succeeded wire response is reduced to status Charged with the wire
\* response's id as ConnectorTransactionId.
C5_SucceededRoundTrip ==
    (IsSome(response_item) /\ IsSome(router_data)
        /\ TheWire.status = "Succeeded") =>
        /\ TheData.ok
        /\ TheData.val.status = "Charged"
        /\ TheData.val.response.ok
        /\ TheData.val.response.val.resource_id
              = ConnectorTransactionId(TheWire.id)

\* a Succeeded response with id txn_2 was reduced over data that held another
\* reference and another status
C5_Witness ==
    /\ IsSome(response_item) /\ IsSome(router_data)
    /\ TheWire = [status |-> "Succeeded", id |-> "txn_2"]
    /\ Unwrap(response_item).data.status = AttemptStatus_default
    /\ Unwrap(response_item).data.response =
          Some(TransactionResponse(ConnectorTransactionId("txn_0")))
    /\ TheData.val.status = "Charged"

\* C7: a HeaderKey credential yields exactly its api_key; every other
\* credential variant fails with FailedToObtainAuthType.
C7_AuthTypeConversion ==
    (IsSome(auth_type) /\ IsSome(opayo_auth)) =>
        LET a == Unwrap(auth_type)
            r == Unwrap(opayo_auth)
        IN  /\ (a.variant = "HeaderKey") =>
                  r.ok /\ r.val = [api_key |-> a.api_key]
            /\ (a.variant # "HeaderKey") =>
                  ~r.ok /\ r.err = FailedToObtainAuthType

\* the conversion refused a BodyKey credential
C7_Witness ==
    /\ IsSome(auth_type) /\ IsSome(opayo_auth)
    /\ Unwrap(auth_type).variant = "BodyKey"
    /\ ~Unwrap(opayo_auth).ok

-----------------------------------------------------------------------------
(* Properties of the error taxonomy.                                       *)

ClientVariants ==
    {"EParsingError", "EAuthenticationError", "EAuthorisationError",
     "EValidationError"}

ServerVariants ==
    {"EDatabaseError", "EEncryptionError", "EUnexpectedError",
     "ConfigurationError", "EMetrics", "EIo", "NotImplementedByConnector"}

\* C8: the status code depends on the variant alone: 400 for the parsing,
\* authentication, authorisation and validation variants, 500 for every
\* other variant; every variant is in exactly one of the two classes.
C8_StatusCodeByVariant ==
    /\ ClientVariants \cup ServerVariants = BachErrorVariants
    /\ ClientVariants \cap ServerVariants = {}
    /\ (IsSome(bach_error) /\ IsSome(status_code_out)) =>
          LET e == Unwrap(bach_error)
              c == Unwrap(status_code_out)
          IN  /\ (e.variant \in ClientVariants) => c = 400
              /\ (e.variant \in ServerVariants) => c = 500
              /\ \A other \in BachError :
                    other.variant = e.variant => status_code(other) = c

\* the status code of an authorisation error was computed
C8_Witness ==
    /\ IsSome(bach_error) /\ IsSome(status_code_out)
    /\ Unwrap(bach_error).variant = "EAuthorisationError"
    /\ Unwrap(status_code_out) = 400

\* C9: the HTTP response built for an error carries the status code that
\* status_code assigns to the error's variant.
C9_ResponseCarriesStatusCode ==
    (IsSome(bach_error) /\ IsSome(http_response)) =>
        Unwrap(http_response).status = status_code(Unwrap(bach_error))

\* C10: every lower-layer error kind has a conversion into the layer above,
\* which wraps the original error in a variant no other kind converts into.
C10_EveryKindLifted ==
    (IsSome(lower_error) /\ IsSome(lifted)) =>
        LET e == Unwrap(lower_error)
            l == Unwrap(lifted)
            table == IF l.target = "BachError"
                     THEN BachError_From ELSE ProcessTrackerError_From
        IN  /\ IsSome(l.result)
            /\ Unwrap(l.result).payload = e
            /\ \A t \in DOMAIN table \ {e.type} :
                  table[t] # Unwrap(l.result).variant

-----------------------------------------------------------------------------
(* Further properties of to_wire_request and from_wire_response.           *)

\* C12: no wire request is produced for an input whose amount is zero or
\* negative.
C12_NoRequestForNonPositiveAmount ==
    (IsSome(item) /\ IsSome(request) /\ TheItem.request.amount <= 0) =>
        ~TheRequest.ok

\* the checks of to_wire_request in their order: does check k refuse input i
Refuses(i, k) ==
    CASE k = 1 -> IsNone(i.description)
      [] k = 2 -> ~IsCard(i)
      [] k = 3 -> IsNone(i.request.browser_info)
      [] k = 4 -> IsNone(i.return_url)
      [] k = 5 -> IsNone(i.address.billing)
      [] k = 6 -> IsSome(i.address.billing)
                    /\ IsNone(Unwrap(i.address.billing).address)
      [] k = 7 -> IsAbsent(i, "line1")
      [] k = 8 -> IsAbsent(i, "city")
      [] k = 9 -> IsAbsent(i, "country")
      [] k = 10 -> IsAbsent(i, "zip")
      [] k = 11 -> IsAbsent(i, "ip_address")
      [] k = 12 -> IsAbsent(i, "first_name")
      [] k = 13 -> IsAbsent(i, "last_name")

\* the error kind and field name check k reports
Reported ==
    <<[kind |-> "MissingRequiredField", field_name |-> "item.description"],
      [kind |-> "NotImplemented", field_name |-> ""],
      [kind |-> "MissingRequiredField", field_name |-> "browser_info"],
      [kind |-> "MissingRequiredField", field_name |-> "notification_url"],
      [kind |-> "MissingRequiredField", field_name |-> "billing_address"],
      [kind |-> "MissingRequiredField", field_name |-> "billing_address"],
      [kind |-> "MissingRequiredField", field_name |-> "address1"],
      [kind |-> "MissingRequiredField", field_name |-> "city"],
      [kind |-> "MissingRequiredField", field_name |-> "country"],
      [kind |-> "MissingRequiredField", field_name |-> "zip"],
      [kind |-> "MissingRequiredField", field_name |-> "browserIP"],
      [kind |-> "MissingRequiredField", field_name |-> "first_name"],
      [kind |-> "MissingRequiredField", field_name |-> "last_name"]>>

Refusing(i) == {k \in 1..Len(Reported) : Refuses(i, k)}

FirstRefusing(i) == CHOOSE k \in Refusing(i) : \A j \in Refusing(i) : k <= j

\* C19: to_wire_request succeeds exactly when no check refuses the input, and
\* otherwise returns the error of the first refusing check in the order
\* description, payment method, browser_info, notification_url,
\* billing_address (twice), address1, city, country, zip, browserIP,
\* first_name, last_name.
C19_FirstFailingCheck ==
    (IsSome(item) /\ IsSome(request)) =>
        IF Refusing(TheItem) = {}
        THEN TheRequest.ok
        ELSE /\ ~TheRequest.ok
             /\ TheRequest.err.kind = Reported[FirstRefusing(TheItem)].kind
             /\ (TheRequest.err.kind = "MissingRequiredField") =>
                   TheRequest.err.field_name
                       = Reported[FirstRefusing(TheItem)].field_name

\* an input with a Wallet, no description and no city was refused for its
\* description
C19_Witness ==
    /\ IsSome(item) /\ IsSome(request)
    /\ {1, 2, 8} \subseteq Refusing(TheItem)
    /\ ~TheRequest.ok
    /\ TheRequest.err = MissingRequiredField("item.description")

\* C20: from_wire_response returns Ok for every wire status, with the
\* response set to a TransactionResponse carrying the wire id and nothing
\* else, and with every field but status and response as it was.
C20_OnlyStatusAndResponseChange ==
    (IsSome(response_item) /\ IsSome(router_data)) =>
        LET before == Unwrap(response_item).data
        IN  /\ TheData.ok
            /\ DOMAIN TheData.val = DOMAIN before
            /\ \A f \in DOMAIN before \ {"status", "response"} :
                  TheData.val[f] = before[f]
            /\ TheData.val.response =
                  Ok([variant |-> "TransactionResponse",
                      resource_id |-> ConnectorTransactionId(TheWire.id),
                      redirection_data |-> None, redirect |-> FALSE,
                      mandate_reference |-> None, connector_metadata |-> None])

\* a Failed response was reduced over data no connector had answered yet
C20_Witness ==
    /\ IsSome(response_item) /\ IsSome(router_data)
    /\ TheWire.status = "Failed"
    /\ Unwrap(response_item).data.status = AttemptStatus_default
    /\ IsNone(Unwrap(response_item).data.response)
    /\ IsNone(Unwrap(response_item).data.error_response)
    /\ TheData.ok
    /\ TheData.val.amount = 100
    /\ IsNone(TheData.val.error_response)

\* C13: each conversion the Opayo transformer exposes ends by handing its
\* caller a Result, Ok or Err; none unwinds instead.
C13_EveryConversionReturns ==
    /\ IsSome(request) => Returned(Unwrap(request))
    /\ IsSome(router_data) => Returned(Unwrap(router_data))
    /\ IsSome(opayo_auth) => Returned(Unwrap(opayo_auth))
    /\ IsSome(refund_out) => Returned(Unwrap(refund_out))

-----------------------------------------------------------------------------
(* Properties of a processing-step invocation.                             *)

TheName == Unwrap(connector_name)
TheLookup == Unwrap(integration)
TheStep == Unwrap(step)
TheResult == Unwrap(step_result)
StepStates ==
    <<"NotStarted", "RequestBuilt", "Dispatched", "ResponseReceived", "Reduced">>
Visited(st) == \E k \in 1..Len(step_trace) : step_trace[k] = st
Failed == IsSome(step_result) /\ Returned(TheResult) /\ ~TheResult.ok
Succeeded == IsSome(step_result) /\ Returned(TheResult) /\ TheResult.ok
OutcomeSet == IsSome(outcome.response) \/ IsSome(outcome.error_response)
LookupFailed == IsSome(integration) /\ ~TheLookup.ok

\* the invocation made its dispatch attempt and has ended
DispatchCompleted == Visited("Dispatched") /\ IsSome(step_result)

C15_ErrorLeavesOutcomeUnset ==
    /\ LookupFailed =>
          /\ TheLookup.err = InvalidConnectorName
          /\ outcome = Unset
    /\ IsSome(step) =>
          /\ Failed => outcome = Unset
          /\ (IsSome(reply) /\ Unwrap(reply).status = 429) =>
                /\ Failed
                /\ TheResult.err = [kind |-> "TooManyRequestsReceived"]
                /\ outcome = Unset
          /\ (IsSome(reply) /\ Unwrap(reply).status # 200) => Failed
          /\ (Failed /\ LastState = "NotStarted") =>
                TheResult \in to_wire_request(TheStep.integration.connector,
                                              TheStep.integration.flow,
                                              TheStep.data)

\* the transport answered 429 in Trigger mode and the invocation failed
C15_Witness ==
    /\ IsSome(step) /\ TheStep.mode = "Trigger"
    /\ IsSome(reply) /\ Unwrap(reply).status = 429
    /\ Failed /\ outcome = Unset

\* C16: the states are visited in the order NotStarted, RequestBuilt,
\* Dispatched, ResponseReceived, Reduced, none skipped or revisited; the
\* transport is called at most once and only after a wire request was built;
\* the outcome is attached only after a response was received; a successful
\* invocation stops at Reduced.
C16_StatesInOrder ==
    /\ IsNone(step) => (step_trace = <<>> /\ transport_calls = 0)
    /\ IsSome(step) =>
          /\ Len(step_trace) \in 1..Len(StepStates)
          /\ \A k \in 1..Len(step_trace) : step_trace[k] = StepStates[k]
          /\ transport_calls <= 1
          /\ (transport_calls > 0) =>
                (IsSome(wire_request) /\ Visited("Dispatched"))
          /\ (Visited("RequestBuilt") <=> IsSome(wire_request))
          /\ OutcomeSet => (Visited("ResponseReceived") /\ IsSome(reply))
          /\ Succeeded => LastState = "Reduced"
          /\ (LastState = "Reduced") => Succeeded

\* a Trigger invocation went through all five states with one transport call
C16_Witness ==
    /\ IsSome(step) /\ TheStep.mode = "Trigger"
    /\ step_trace = StepStates
    /\ transport_calls = 1

\* C17: with a connector identifier the Registry does not hold, the lookup
\* fails with InvalidConnectorName, no connector is resolved in its place,
\* no invocation starts and the transport is never called.
C17_UnregisteredConnector ==
    (IsSome(connector_name) /\ TheName.connector \notin Registry) =>
        /\ IsSome(integration) => TheLookup = Err(InvalidConnectorName)
        /\ step = None /\ step_result = None
        /\ wire_request = None /\ reply = None
        /\ transport_calls = 0

\* the Registry was asked for an unregistered connector and has answered
C17_Witness ==
    /\ IsSome(connector_name) /\ TheName.connector \notin Registry
    /\ LookupFailed /\ transport_calls = 0

====
